---- MODULE Spec2Model ----
(***************************************************************************)
(* Model of backend/stats_engine.py: process_game_events, the fold that    *)
(* turns a list of EventCreate into a list of PlayerStats.                  *)
(*                                                                         *)
(* Lengths are in hundredths of a yard.  Every coordinate of Positions is  *)
(* a multiple of 0.25 yard and every distance between two of them is one   *)
(* too (a 3-4-5 triangle), so the float arithmetic of the source is exact  *)
(* on these inputs and integers model it without loss.                     *)
(*                                                                         *)
(* Rows of df are numbered from 1: the source's df.iloc[i-1] is df[i] and  *)
(* its df.iloc[i] is df[i + 1].                                            *)
(***************************************************************************)
EXTENDS Integers, Sequences, FiniteSets

\* ---------------------------------------------------------------- bounds
MaxLen == 3

Players     == {"A", "B"}
ActionTypes == {"catch", "pull", "turnover"}
Positions   == {<<0, 0>>, <<75, 100>>}
Timestamps  == {1, 2}

\* schemas.py EventCreate
EventCreate(player_name, action_type, position, timestamp) ==
    [player_name |-> player_name, action_type |-> action_type,
     x |-> position[1], y |-> position[2], timestamp |-> timestamp]

Events ==
    {EventCreate(n, a, p, t) :
        n \in Players, a \in ActionTypes, p \in Positions, t \in Timestamps}

Orderings(n) ==
    {p \in [1..n -> 1..n] : \A a, b \in 1..n : a # b => p[a] # p[b]}

\* df: the frame, first in input order (pd.DataFrame(data)), then sorted
\* i: the loop index; stats: the dict; results: the returned list
VARIABLES df, i, stats, results, pc

vars == <<df, i, stats, results, pc>>

\* ------------------------------------------------------- pure functions

\* math.sqrt on the perfect squares the inputs produce
Sqrt(n) == CHOOSE r \in 0..n : r * r = n

\* faulty variant: the yards gained along the field instead of the distance
calculate_distance_signed(x1, y1, x2, y2) == y2 - y1

calculate_distance(x1, y1, x2, y2) ==
    Sqrt((x2 - x1) * (x2 - x1) + (y2 - y1) * (y2 - y1))

\* round(v, 1): to the nearest tenth of a yard, an exact tie to the even tenth
Round1(v) ==
    LET q == v \div 10
        r == v % 10
    IN  IF r < 5 THEN 10 * q
        ELSE IF r > 5 THEN 10 * (q + 1)
        ELSE IF q % 2 = 0 THEN 10 * q ELSE 10 * (q + 1)

\* the orders of the rows S of ev that ascend by timestamp: each begins with
\* any one of the rows of least timestamp
RECURSIVE Ascending(_, _)
Ascending(ev, S) ==
    IF S = {} THEN {<<>>}
    ELSE LET least == {k \in S : \A j \in S : ev[k].timestamp <= ev[j].timestamp}
         IN  UNION {{<<ev[k]>> \o t : t \in Ascending(ev, S \ {k})} : k \in least}

\* faulty variant: the frame is left in input order
SortValuesUnsorted(ev) == {ev}

\* df.sort_values(by='timestamp'): the default kind is 'quicksort', which
\* does not promise the order of rows with equal keys
SortValues(ev) == Ascending(ev, 1..Len(ev))

\* the dict stats, in insertion order
Names(st) == {st[k].name : k \in 1..Len(st)}

Index(st, name) == CHOOSE k \in 1..Len(st) : st[k].name = name

ZeroStats(name) ==
    [name |-> name, touches |-> 0, throwing_yards |-> 0,
     receiving_yards |-> 0, turnovers |-> 0]

\* faulty variant: the accumulator is set to zero without the membership test
InitializeReset(st, name) ==
    IF name \in Names(st)
    THEN [st EXCEPT ![Index(st, name)] = ZeroStats(name)]
    ELSE Append(st, ZeroStats(name))

Initialize(st, name) ==
    IF name \in Names(st) THEN st ELSE Append(st, ZeroStats(name))

AddTo(st, name, field, amount) ==
    [st EXCEPT ![Index(st, name)][field] = @ + amount]

\* faulty variant: the previous event's kind is not looked at
IsCompletionAnyPrevious(prev_event, curr_event) ==
    curr_event.action_type = "catch"

IsCompletion(prev_event, curr_event) ==
    /\ curr_event.action_type = "catch"
    /\ prev_event.action_type \in {"catch", "pull"}

IsTurnover(curr_event) == curr_event.action_type = "turnover"

\* faulty variant: the two yardage fields are exchanged
CreditCompletionSwapped(st, prev_event, curr_event) ==
    LET player  == curr_event.player_name
        thrower == prev_event.player_name
        dist == calculate_distance(prev_event.x, prev_event.y,
                                   curr_event.x, curr_event.y)
        s1 == AddTo(st, thrower, "receiving_yards", dist)
        s2 == AddTo(s1, player, "throwing_yards", dist)
    IN  AddTo(s2, player, "touches", 1)

\* faulty variant: the thrower is credited only when the receiver is someone else
CreditCompletionOtherThrower(st, prev_event, curr_event) ==
    LET player  == curr_event.player_name
        thrower == prev_event.player_name
        dist == calculate_distance(prev_event.x, prev_event.y,
                                   curr_event.x, curr_event.y)
        s1 == IF thrower = player THEN st
              ELSE AddTo(st, thrower, "throwing_yards", dist)
        s2 == AddTo(s1, player, "receiving_yards", dist)
    IN  AddTo(s2, player, "touches", 1)

\* the branch taken for a completed throw: thrower and receiver are credited
CreditCompletion(st, prev_event, curr_event) ==
    LET player  == curr_event.player_name
        thrower == prev_event.player_name
        dist == calculate_distance(prev_event.x, prev_event.y,
                                   curr_event.x, curr_event.y)
        s1 == AddTo(st, thrower, "throwing_yards", dist)
        s2 == AddTo(s1, player, "receiving_yards", dist)
    IN  AddTo(s2, player, "touches", 1)

\* faulty variant: the turnover goes to the previous actor
CreditTurnoverThrower(st, prev_event, curr_event) ==
    AddTo(st, prev_event.player_name, "turnovers", 1)

\* the elif branch
CreditTurnover(st, prev_event, curr_event) ==
    AddTo(st, curr_event.player_name, "turnovers", 1)

\* one iteration of the loop over adjacent rows
LoopBody(st, prev_event, curr_event) ==
    LET player  == curr_event.player_name
        thrower == prev_event.player_name
        s0 == Initialize(Initialize(st, player), thrower)
    IN  IF IsCompletion(prev_event, curr_event)
        THEN CreditCompletion(s0, prev_event, curr_event)
        ELSE IF IsTurnover(curr_event)
        THEN CreditTurnover(s0, prev_event, curr_event)
        ELSE s0

PlayerStats(data) ==
    [player_name |-> data.name,
     touches |-> data.touches,
     throwing_yards |-> Round1(data.throwing_yards),
     receiving_yards |-> Round1(data.receiving_yards),
     turnovers |-> data.turnovers]

\* faulty variant: players without any statistic are left out
ToResultsNonZero(st) ==
    LET all == [k \in 1..Len(st) |-> PlayerStats(st[k])]
        HasStats(r) == r.touches + r.turnovers + r.throwing_yards
                           + r.receiving_yards > 0
    IN  SelectSeq(all, HasStats)

ToResults(st) == [k \in 1..Len(st) |-> PlayerStats(st[k])]

RECURSIVE Fold(_, _, _)
Fold(st, s, k) ==
    IF k >= Len(s) THEN st ELSE Fold(LoopBody(st, s[k], s[k + 1]), s, k + 1)

\* every list process_game_events can return for the input ev
process_game_events(ev) ==
    IF Len(ev) = 0 THEN {}
    ELSE {ToResults(Fold(<<>>, s, 1)) : s \in SortValues(ev)}

\* -------------------------------------------------------------- actions

\* data = [e.dict() for e in events]; df = pd.DataFrame(data)
Init ==
    /\ \E n \in 0..MaxLen : df \in [1..n -> Events]
    /\ i = 0
    /\ stats = <<>>
    /\ results = <<>>
    /\ pc = "sort"

\* an empty list makes a frame without columns: sort_values raises KeyError
SortRaises ==
    /\ pc = "sort"
    /\ Len(df) = 0
    /\ pc' = "error"
    /\ UNCHANGED <<df, i, stats, results>>

Sort ==
    /\ pc = "sort"
    /\ Len(df) > 0
    /\ df' \in SortValues(df)
    /\ i' = 1
    /\ pc' = "loop"
    /\ UNCHANGED <<stats, results>>

Iterate ==
    /\ pc = "loop"
    /\ i < Len(df)
    /\ stats' = LoopBody(stats, df[i], df[i + 1])
    /\ i' = i + 1
    /\ UNCHANGED <<df, results, pc>>

Convert ==
    /\ pc = "loop"
    /\ i >= Len(df)
    /\ results' = ToResults(stats)
    /\ pc' = "done"
    /\ UNCHANGED <<df, i, stats>>

Next == SortRaises \/ Sort \/ Iterate \/ Convert

Spec == Init /\ [][Next]_vars

\* the inputs whose timestamps are pairwise distinct: 1..n in any order
InitDistinct ==
    /\ \E n \in 0..MaxLen :
         \E s \in [1..n -> Players \X ActionTypes \X Positions],
            p \in Orderings(n) :
             df = [k \in 1..n |-> EventCreate(s[k][1], s[k][2], s[k][3], p[k])]
    /\ i = 0
    /\ stats = <<>>
    /\ results = <<>>
    /\ pc = "sort"

SpecDistinct == InitDistinct /\ [][Next]_vars

\* ------------------------------------------------------------ properties

\* the accumulator of a player, all zero when the player has none
Acc(st, name) ==
    IF name \in Names(st) THEN st[Index(st, name)] ELSE ZeroStats(name)

RECURSIVE SumUpTo(_, _, _)
SumUpTo(st, field, n) ==
    IF n = 0 THEN 0 ELSE SumUpTo(st, field, n - 1) + st[n][field]

SumField(st, field) == SumUpTo(st, field, Len(st))

\* the two rules as the design states them
CompletionRule(previous, current) ==
    /\ current.action_type = "catch"
    /\ previous.action_type = "catch" \/ previous.action_type = "pull"

TurnoverRule(previous, current) == current.action_type = "turnover"

Abs(n) == IF n < 0 THEN 0 - n ELSE n

\* the straight-line distance d >= 0 with d * d = dx * dx + dy * dy
Euclidean(previous, current) ==
    LET dx == current.x - previous.x
        dy == current.y - previous.y
    IN  CHOOSE d \in 0..(Abs(dx) + Abs(dy)) : d * d = dx * dx + dy * dy

\* the pairs (df[k], df[k + 1]) the loop has evaluated so far
Evaluated == IF pc \in {"loop", "done"} THEN 1..(i - 1) ELSE {}

AllPairs == 1..(Len(df) - 1)

PairActors == UNION {{df[k].player_name, df[k + 1].player_name} : k \in AllPairs}

AtStep == pc = "loop" /\ i < Len(df)

Permuted(s, p) == [k \in 1..Len(s) |-> s[p[k]]]

DistinctTimestamps(s) ==
    \A a, b \in 1..Len(s) : a # b => s[a].timestamp # s[b].timestamp

\* a stable sort by timestamp: insertion after every row that is not later
InsertStable(s, e) ==
    LET k == Cardinality({j \in 1..Len(s) : s[j].timestamp <= e.timestamp})
    IN  SubSeq(s, 1, k) \o <<e>> \o SubSeq(s, k + 1, Len(s))

RECURSIVE StableSortUpTo(_, _)
StableSortUpTo(s, n) ==
    IF n = 0 THEN <<>> ELSE InsertStable(StableSortUpTo(s, n - 1), s[n])

StableSort(s) == StableSortUpTo(s, Len(s))

\* C1: on a pair that satisfies the completion rule the loop adds the
\* Euclidean distance to throwing_yards of the previous actor and to
\* receiving_yards of the current actor, adds 1 to touches of the current
\* actor, and changes no other counter of any player and no turnovers.
C1_CompletionCredits ==
    [][(AtStep /\ CompletionRule(df[i], df[i + 1])) =>
        LET previous == df[i]
            current  == df[i + 1]
            d == Euclidean(previous, current)
        IN  /\ Names(stats') = Names(stats) \cup
                   {previous.player_name, current.player_name}
            /\ \A n \in Players :
                 LET a == Acc(stats, n)
                     b == Acc(stats', n)
                 IN  /\ b.throwing_yards = a.throwing_yards +
                            (IF n = previous.player_name THEN d ELSE 0)
                     /\ b.receiving_yards = a.receiving_yards +
                            (IF n = current.player_name THEN d ELSE 0)
                     /\ b.touches = a.touches +
                            (IF n = current.player_name THEN 1 ELSE 0)
                     /\ b.turnovers = a.turnovers]_vars

\* a chain pull -> catch -> catch over distinct positions: the middle actor
\* has received on the first pair and thrown on the second
C1_Witness ==
    /\ pc = "loop" /\ i = 3
    /\ df[1].action_type = "pull"
    /\ CompletionRule(df[1], df[2]) /\ CompletionRule(df[2], df[3])
    /\ df[1].player_name # df[2].player_name
    /\ Euclidean(df[1], df[2]) > 0 /\ Euclidean(df[2], df[3]) > 0
    /\ Acc(stats, df[2].player_name).receiving_yards > 0
    /\ Acc(stats, df[2].player_name).throwing_yards > 0

\* C2: for an input of length 0 or 1 the function does not fail and returns
\* an empty list.
C2_DegenerateIsEmpty ==
    Len(df) <= 1 => (pc # "error" /\ (pc = "done" => results = <<>>))

\* C3: the sort is stable: rows of equal timestamp keep their input order.
C3_SortIsStable ==
    [][(pc = "sort" /\ pc' = "loop") => df' = StableSort(df)]_vars

\* C4: with pairwise distinct timestamps the returned list is the same for
\* every order of the input list (the frame is one of the orders of the
\* input, so the input is among the lists compared).
C4_OrderInsensitive ==
    (pc = "done" /\ DistinctTimestamps(df)) =>
        \A p \in Orderings(Len(df)) :
            process_game_events(Permuted(df, p)) = {results}

\* three events, two completed throws
C4_Witness ==
    /\ pc = "done" /\ Len(df) = 3 /\ DistinctTimestamps(df)
    /\ SumField(results, "touches") = 2
    /\ SumField(results, "throwing_yards") > 0

\* C5: the output holds exactly one record for each distinct actor of an
\* evaluated pair and none for any other name; for two or more events these
\* are the actors of all events, the first sorted event included.
C5_OneRecordPerActor ==
    pc = "done" =>
        /\ {results[k].player_name : k \in 1..Len(results)} = PairActors
        /\ Len(results) = Cardinality(PairActors)
        /\ Len(df) >= 2 => PairActors = {df[k].player_name : k \in 1..Len(df)}

\* the actor of the first sorted event acts only there and has a record
C5_Witness ==
    /\ pc = "done" /\ Len(df) = 3
    /\ df[2].player_name = df[3].player_name
    /\ df[1].player_name # df[2].player_name
    /\ Len(results) = 2
    /\ \E k \in 1..Len(results) : results[k].player_name = df[1].player_name

\* C6: after every step the touches of all accumulators add up to the number
\* of evaluated pairs that satisfy the completion rule, and the touches of
\* the output records to the number of all such pairs.
C6_TouchesCountCompletions ==
    /\ pc \in {"loop", "done"} =>
         SumField(stats, "touches") =
             Cardinality({k \in Evaluated : CompletionRule(df[k], df[k + 1])})
    /\ pc = "done" =>
         SumField(results, "touches") =
             Cardinality({k \in AllPairs : CompletionRule(df[k], df[k + 1])})

\* a catch after a turnover (no touch), then a catch after that catch (a touch)
C6_Witness ==
    /\ pc = "done" /\ Len(df) = 3
    /\ df[1].action_type = "turnover"
    /\ df[2].action_type = "catch" /\ df[3].action_type = "catch"
    /\ SumField(results, "touches") = 1

C7_TurnoverStep ==
    (AtStep /\ TurnoverRule(df[i], df[i + 1])) =>
        \A n \in Players :
            LET a == Acc(stats, n)
                b == Acc(stats', n)
            IN  /\ b.turnovers = a.turnovers +
                       (IF n = df[i + 1].player_name THEN 1 ELSE 0)
                /\ b.touches = a.touches
                /\ b.throwing_yards = a.throwing_yards
                /\ b.receiving_yards = a.receiving_yards

C7_TurnoverTotals ==
    /\ pc \in {"loop", "done"} =>
         \A n \in Players :
             Acc(stats, n).turnovers =
                 Cardinality({k \in Evaluated :
                                 /\ df[k + 1].action_type = "turnover"
                                 /\ df[k + 1].player_name = n})
    /\ pc = "done" =>
         SumField(results, "turnovers") =
             Cardinality({k \in 2..Len(df) : df[k].action_type = "turnover"})

\* C7: each event after the first whose action_type is 'turnover' adds exactly
\* 1 to turnovers of its own actor, whatever came before it, and nothing to
\* yardage or touches; the turnovers of the output add up to the number of
\* such events, and a turnover that is sorted first is not counted.
C7_TurnoverCounts == [][C7_TurnoverStep]_vars /\ []C7_TurnoverTotals

\* a turnover sorted first is not counted, the one by the other player is
C7_Witness ==
    /\ pc = "done" /\ Len(df) = 3
    /\ df[1].action_type = "turnover" /\ df[3].action_type = "turnover"
    /\ df[2].action_type = "catch"
    /\ df[1].player_name # df[3].player_name
    /\ SumField(results, "turnovers") = 1

\* C8: every counter of every accumulator is >= 0 after every step, and so
\* is every numeric field of every output record.
C8_NonNegative ==
    /\ \A k \in 1..Len(stats) :
         /\ stats[k].touches >= 0 /\ stats[k].turnovers >= 0
         /\ stats[k].throwing_yards >= 0 /\ stats[k].receiving_yards >= 0
    /\ \A k \in 1..Len(results) :
         /\ results[k].touches >= 0 /\ results[k].turnovers >= 0
         /\ results[k].throwing_yards >= 0 /\ results[k].receiving_yards >= 0

\* a completed throw towards smaller coordinates
C8_Witness ==
    /\ pc = "done" /\ Len(df) >= 2
    /\ CompletionRule(df[1], df[2])
    /\ df[2].y < df[1].y /\ df[2].x < df[1].x
    /\ SumField(results, "receiving_yards") > 0

C9_NoRuleStep ==
    (AtStep /\ ~CompletionRule(df[i], df[i + 1])
            /\ ~TurnoverRule(df[i], df[i + 1])) =>
        /\ Len(stats') >= Len(stats)
        /\ SubSeq(stats', 1, Len(stats)) = stats
        /\ Names(stats') = Names(stats) \cup
               {df[i].player_name, df[i + 1].player_name}
        /\ \A k \in (Len(stats) + 1)..Len(stats') :
               stats'[k] = ZeroStats(stats'[k].name)

C9_ZeroRecords ==
    pc = "done" =>
        \A n \in PairActors :
            (\A k \in AllPairs :
                n \in {df[k].player_name, df[k + 1].player_name} =>
                    /\ ~CompletionRule(df[k], df[k + 1])
                    /\ ~TurnoverRule(df[k], df[k + 1]))
            => \E r \in 1..Len(results) :
                   results[r] = [player_name |-> n, touches |-> 0,
                                 throwing_yards |-> 0, receiving_yards |-> 0,
                                 turnovers |-> 0]

\* C9: a pair that satisfies neither rule changes no counter of a player who
\* has an accumulator and creates all-zero accumulators for its two actors
\* where they have none; a player all of whose pairs are such pairs is in the
\* output with all-zero statistics.
C9_NoRuleNoUpdate == [][C9_NoRuleStep]_vars /\ []C9_ZeroRecords

\* a catch right after a turnover, then a pull: the first pair leaves two all-
\* zero accumulators, the second changes nothing
C9_Witness ==
    /\ pc = "done" /\ Len(df) = 3
    /\ df[1].action_type = "turnover" /\ df[2].action_type = "catch"
    /\ df[3].action_type = "pull"
    /\ df[1].player_name # df[2].player_name
    /\ Len(results) = 2
    /\ \A r \in 1..2 : results[r].touches = 0 /\ results[r].turnovers = 0
                       /\ results[r].throwing_yards = 0
                       /\ results[r].receiving_yards = 0

====
